---- MODULE Spec2Model ----
(***************************************************************************)
(* A model of atest's test finder utilities                                *)
(* (src/atest/test_finders/test_finder_utils.py).                          *)
(*                                                                         *)
(* Python strings are modelled as sequences of one-character strings, so   *)
(* that strip, split, startswith, os.path.commonprefix and the other       *)
(* conversions are computed character by character, as the code does.     *)
(***************************************************************************)
EXTENDS Integers, Sequences, FiniteSets, TLC

VARIABLES
    \* find_parent_module_dir
    root_dir, start_dir, markers, current_dir, fpc, fresult,
    \* extract_test_path
    found, output, tests, selection, asked, epc, eresult,
    \* _get_vts_push_group_targets
    files, push_file, stack, ppc, presult,
    \* get_targets_from_xml_root and get_targets_from_vts_xml
    module_info,
    xml_root, xidx, xtargets, xpc,
    vts_options, vidx, vtargets, added, vpc,
    \* get_fully_qualified_class_name
    test_path, class_file, line_no, qpc, qresult,
    \* split_methods
    user_input, mpc, mresult,
    \* atest main
    args, steps, build_targets, run_commands, success, executed, apc, exit_code

modVars == <<root_dir, start_dir, markers, current_dir, fpc, fresult>>
extVars == <<found, output, tests, selection, asked, epc, eresult>>
pushVars == <<files, push_file, stack, ppc, presult>>
xmlVars == <<xml_root, xidx, xtargets, xpc>>
vtsVars == <<vts_options, vidx, vtargets, added, vpc>>
fqcnVars == <<test_path, class_file, line_no, qpc, qresult>>
splitVars == <<user_input, mpc, mresult>>
mainVars == <<args, steps, build_targets, run_commands, success, executed, apc, exit_code>>
vars == <<modVars, extVars, pushVars, module_info, xmlVars, vtsVars, fqcnVars, splitVars, mainVars>>

(***************************************************************************)
(* Bounds of the model.                                                    *)
(***************************************************************************)
\* Depth of the modelled directory tree.
MaxDepth == 3
\* Number of paths the find command may print.
MaxTests == 3
\* Length of the text typed at the selection prompt.
MaxSelLen == 2
\* Number of lines of a push group file.
MaxLines == 2
\* Nested calls of _get_vts_push_group_targets the interpreter allows (its
\* recursion limit, scaled down).
MaxStack == 4
\* Number of elements of a configuration document.
MaxElems == 3
\* Number of options of a vts configuration document.
MaxOptions == 3
\* Length of the value of a binary-test-source option.
MaxValueLen == 4
\* Number of lines of a java class file.
MaxFileLines == 3
\* Length of the user's input string.
MaxInputLen == 5
\* Number of -b/-i/-t options on the command line.
MaxStepOptions == 3
\* Number of run commands the translator returns.
MaxCommands == 2

(***************************************************************************)
(* Python str and list helpers.                                            *)
(***************************************************************************)
SetMin(S) == CHOOSE m \in S : \A n \in S : m <= n
SetMax(S) == CHOOSE m \in S : \A n \in S : m >= n

\* str.startswith
startswith(s, p) == Len(p) <= Len(s) /\ SubSeq(s, 1, Len(p)) = p

\* str.endswith
endswith(s, p) == Len(p) <= Len(s) /\ SubSeq(s, Len(s) - Len(p) + 1, Len(s)) = p

\* The positions at which sub occurs in s.
Occurrences(s, sub) ==
    {i \in 1..(Len(s) - Len(sub) + 1) : SubSeq(s, i, i + Len(sub) - 1) = sub}

\* str.find, 1-based; 0 when sub does not occur.
find(s, sub) == IF Occurrences(s, sub) = {} THEN 0 ELSE SetMin(Occurrences(s, sub))

\* str.rfind, 1-based; 0 when sub does not occur.
rfind(s, sub) == IF Occurrences(s, sub) = {} THEN 0 ELSE SetMax(Occurrences(s, sub))

\* sub in s
contains(s, sub) == Occurrences(s, sub) # {}

\* str.split(sep): every occurrence of sep separates two fields.
RECURSIVE split(_, _)
split(s, sep) ==
    IF find(s, sep) = 0 THEN <<s>>
    ELSE <<SubSeq(s, 1, find(s, sep) - 1)>>
         \o split(SubSeq(s, find(s, sep) + Len(sep), Len(s)), sep)

\* sep.join(parts)
RECURSIVE join(_, _)
join(sep, parts) ==
    IF parts = <<>> THEN <<>>
    ELSE IF Len(parts) = 1 THEN parts[1]
    ELSE parts[1] \o sep \o join(sep, Tail(parts))

\* str.lstrip(chars) / str.rstrip(chars) / str.strip(chars)
RECURSIVE lstrip(_, _)
lstrip(s, chars) ==
    IF s # <<>> /\ Head(s) \in chars THEN lstrip(Tail(s), chars) ELSE s

RECURSIVE rstrip(_, _)
rstrip(s, chars) ==
    IF s # <<>> /\ s[Len(s)] \in chars THEN rstrip(SubSeq(s, 1, Len(s) - 1), chars) ELSE s

strip_chars(s, chars) == rstrip(lstrip(s, chars), chars)

Whitespace == {" ", "\t", "\n", "\r"}

\* str.strip()
strip(s) == strip_chars(s, Whitespace)

\* The elements of a sequence.
Range(f) == {f[i] : i \in DOMAIN f}

(***************************************************************************)
(* posixpath.                                                              *)
(***************************************************************************)
sep == <<"/">>

\* os.path.join(a, b)
os_path_join(a, b) ==
    IF startswith(b, sep) THEN b
    ELSE IF a = <<>> \/ endswith(a, sep) THEN a \o b
    ELSE a \o sep \o b

\* os.path.dirname(p)
os_path_dirname(p) ==
    LET head == SubSeq(p, 1, rfind(p, sep))
    IN  IF head # <<>> /\ Range(head) # {"/"} THEN rstrip(head, {"/"}) ELSE head

\* os.path.commonprefix([a, b]): the longest common prefix, character by character.
os_path_commonprefix(a, b) ==
    LET n == IF Len(a) < Len(b) THEN Len(a) ELSE Len(b)
        same == {k \in 0..n : \A i \in 1..k : a[i] = b[i]}
    IN  SubSeq(a, 1, SetMax(same))

\* The component loop of posixpath.normpath on the components of an absolute path.
RECURSIVE NormComps(_, _)
NormComps(comps, acc) ==
    IF comps = <<>> THEN acc
    ELSE IF Head(comps) \in {<<>>, <<".">>} THEN NormComps(Tail(comps), acc)
    ELSE IF Head(comps) = <<".", ".">>
         THEN NormComps(Tail(comps),
                        IF acc = <<>> THEN acc ELSE SubSeq(acc, 1, Len(acc) - 1))
    ELSE NormComps(Tail(comps), Append(acc, Head(comps)))

\* The components of an absolute path after normalisation.
PathComps(p) == NormComps(split(p, sep), <<>>)

\* os.path.realpath(p) for an absolute path in a tree without symbolic links.
os_path_realpath(p) == sep \o join(sep, PathComps(p))

\* os.path.relpath(path, start)
os_path_relpath(path, start) ==
    LET start_list == PathComps(start)
        path_list == PathComps(path)
        n == IF Len(start_list) < Len(path_list) THEN Len(start_list) ELSE Len(path_list)
        i == SetMax({k \in 0..n : \A j \in 1..k : start_list[j] = path_list[j]})
        rel_list == [k \in 1..(Len(start_list) - i) |-> <<".", ".">>]
                    \o SubSeq(path_list, i + 1, Len(path_list))
    IN  IF rel_list = <<>> THEN <<".">> ELSE join(sep, rel_list)

(***************************************************************************)
(* The file system find_parent_module_dir looks at.                        *)
(***************************************************************************)
\* Directory names. "ab" has "a" as a character prefix.
DirNames == {<<"a">>, <<"a", "b">>}

\* The directories of the tree, each as its list of components from "/".
RECURSIVE DirsOfDepth(_)
DirsOfDepth(n) ==
    IF n = 0 THEN {<<>>}
    ELSE {Append(d, c) : d \in DirsOfDepth(n - 1), c \in DirNames}

AllDirs == UNION {DirsOfDepth(n) : n \in 0..MaxDepth}

\* The absolute path of a directory.
Render(d) == sep \o join(sep, d)

\* The strings a caller may pass as root_dir or start_dir: the canonical path
\* of a directory of the tree, or that path with a trailing slash.
PathInputs == {Render(d) : d \in AllDirs} \cup {Render(d) \o sep : d \in AllDirs \ {<<>>}}

\* constants.MODULE_CONFIG, the marker file's name.
file_to_locate == <<"M">>

\* The directories that exist: the whole tree, except that at the deepest level
\* only the names "a" are directories (an "ab" there is a plain file).
Directories ==
    {Render(d) : d \in {e \in AllDirs : Len(e) = MaxDepth => e[Len(e)] = <<"a">>}}

\* os.path.isdir(p)
os_path_isdir(p) == os_path_realpath(p) \in Directories

\* os.path.isfile(p), for the marker files of the tree.
os_path_isfile(p) ==
    os_path_realpath(p) \in {os_path_join(d, file_to_locate) : d \in markers}

\* d is anc or a directory below it, component by component.
IsEqualOrDescendant(d, anc) ==
    Len(PathComps(anc)) <= Len(PathComps(d))
    /\ SubSeq(PathComps(d), 1, Len(PathComps(anc))) = PathComps(anc)

\* The canonical paths of d and of every directory above it.
AncestorsOrSelf(d) ==
    {Render(SubSeq(PathComps(d), 1, k)) : k \in 0..Len(PathComps(d))}

(***************************************************************************)
(* is_equal_or_sub_dir and find_parent_module_dir.                         *)
(***************************************************************************)
\* The variables find_parent_module_dir leaves alone.
notModVars == <<extVars, pushVars, module_info, xmlVars, vtsVars, fqcnVars, splitVars, mainVars>>

is_equal_or_sub_dir(sub_dir, parent_dir) ==
    IF ~os_path_isdir(os_path_realpath(sub_dir))
       \/ ~os_path_isdir(os_path_realpath(parent_dir))
    THEN FALSE
    ELSE os_path_commonprefix(os_path_realpath(sub_dir), os_path_realpath(parent_dir))
         = os_path_realpath(parent_dir)

ModInit ==
    /\ root_dir \in PathInputs
    /\ start_dir \in PathInputs
    \* The walk only ever tests start_dir and the directories above it.
    /\ markers \in SUBSET AncestorsOrSelf(start_dir)
    /\ current_dir = <<>>
    /\ fpc = "call"
    /\ fresult = <<>>

ModIdle ==
    /\ root_dir = <<>>
    /\ start_dir = <<>>
    /\ markers = {}
    /\ current_dir = <<>>
    /\ fpc = "idle"
    /\ fresult = <<>>

\* Lines 230-232: the validation, then current_dir = start_dir.
FpmValidate ==
    /\ fpc = "call"
    /\ IF is_equal_or_sub_dir(start_dir, root_dir)
       THEN fpc' = "walk" /\ current_dir' = start_dir
       ELSE fpc' = "ValueError" /\ UNCHANGED current_dir
    /\ UNCHANGED <<root_dir, start_dir, markers, fresult>>
    /\ UNCHANGED notModVars

\* Lines 233-236: one iteration of the while loop.
FpmWalkStepSkipsStart ==
    /\ fpc = "walk"
    /\ current_dir # root_dir
    /\ IF current_dir # start_dir
          /\ os_path_isfile(os_path_join(current_dir, file_to_locate))
       THEN /\ fpc' = "returned"
            /\ fresult' = os_path_relpath(current_dir, root_dir)
            /\ UNCHANGED current_dir
       ELSE /\ current_dir' = os_path_dirname(current_dir)
            /\ UNCHANGED <<fpc, fresult>>
    /\ UNCHANGED <<root_dir, start_dir, markers>>
    /\ UNCHANGED notModVars

FpmWalkStep ==
    /\ fpc = "walk"
    /\ current_dir # root_dir
    /\ IF os_path_isfile(os_path_join(current_dir, file_to_locate))
       THEN /\ fpc' = "returned"
            /\ fresult' = os_path_relpath(current_dir, root_dir)
            /\ UNCHANGED current_dir
       ELSE /\ current_dir' = os_path_dirname(current_dir)
            /\ UNCHANGED <<fpc, fresult>>
    /\ UNCHANGED <<root_dir, start_dir, markers>>
    /\ UNCHANGED notModVars

\* Lines 233, 237-238: the loop ends at root_dir.
FpmWalkExit ==
    /\ fpc = "walk"
    /\ current_dir = root_dir
    /\ fpc' = "TestWithNoModuleError"
    /\ UNCHANGED <<root_dir, start_dir, markers, current_dir, fresult>>
    /\ UNCHANGED notModVars

ModNext == FpmValidate \/ FpmWalkStep \/ FpmWalkExit

(***************************************************************************)
(* Claims about find_parent_module_dir.                                    *)
(***************************************************************************)
\* The call has passed the validation of line 230.
FpmValidated == fpc \in {"walk", "returned", "TestWithNoModuleError"}

\* The directories from start_dir up to root_dir, root_dir excluded.
ChainBelowRoot ==
    LET sc == PathComps(start_dir)
        rc == PathComps(root_dir)
    IN  IF Len(rc) <= Len(sc) /\ SubSeq(sc, 1, Len(rc)) = rc
        THEN {Render(SubSeq(sc, 1, k)) : k \in (Len(rc) + 1)..Len(sc)}
        ELSE {}

\* The marked directories of that chain.
MarkedOnChain == ChainBelowRoot \cap markers

\* The marked directory of the chain nearest to start_dir.
NearestMarked == CHOOSE d \in MarkedOnChain : \A e \in MarkedOnChain : Len(e) <= Len(d)

\* C2: a start directory that is neither the root nor below it (component by
\* component, on canonical paths) is rejected with ValueError before any walk:
\* the call never gets past the validation and never returns a path.
C2_OutsideRootRejected ==
    ~IsEqualOrDescendant(start_dir, root_dir) => fpc \in {"call", "ValueError"}

\* C3: once the validation has passed and no directory from start_dir up to
\* root_dir holds the marker, the walk stays at or below root_dir, does not
\* sit at "/" with nothing left to climb, and never returns a path.
C3_NoMarkerEndsAtRoot ==
    (FpmValidated /\ markers \cap (ChainBelowRoot \cup {os_path_realpath(root_dir)}) = {})
        => /\ fpc # "returned"
           /\ IsEqualOrDescendant(current_dir, root_dir)
           /\ ~(fpc = "walk" /\ current_dir = sep /\ root_dir # sep)

\* C4: when start_dir is a directory properly below the directory root_dir
\* and some directory of the chain from start_dir up to (not including)
\* root_dir holds the marker, the call raises nothing, the walk never climbs
\* past the nearest marked directory, and the value returned is that
\* directory's path relative to root_dir.
C4_NearestMarkedReturned ==
    (/\ fpc # "call"
     /\ markers # {}
     /\ os_path_isdir(start_dir) /\ os_path_isdir(root_dir)
     /\ IsEqualOrDescendant(start_dir, root_dir)
     /\ PathComps(start_dir) # PathComps(root_dir)
     /\ MarkedOnChain # {})
        => /\ fpc \in {"walk", "returned"}
           /\ fpc = "walk" => IsEqualOrDescendant(current_dir, NearestMarked)
           /\ fpc = "returned" =>
                fresult = join(sep, SubSeq(PathComps(NearestMarked),
                                           Len(PathComps(root_dir)) + 1,
                                           Len(PathComps(NearestMarked))))

\* C4's case: a path was returned after at least one step up, with a second
\* marked directory higher on the chain.
C4_Witness ==
    /\ fpc = "returned"
    /\ IsEqualOrDescendant(start_dir, root_dir)
    /\ Cardinality(MarkedOnChain) >= 2
    /\ os_path_realpath(start_dir) # NearestMarked

(***************************************************************************)
(* extract_test_path.                                                      *)
(***************************************************************************)
\* The variables extract_test_path leaves alone.
notExtVars == <<modVars, pushVars, module_info, xmlVars, vtsVars, fqcnVars, splitVars, mainVars>>

\* Python's None.
None == <<"None">>

newline == <<"\n">>

\* The paths the find command may print.
TestPaths == {<<"/", "p">>, <<"/", "q">>}

\* The lists of at most n paths.
RECURSIVE PathLists(_)
PathLists(n) ==
    IF n = 0 THEN {<<>>}
    ELSE PathLists(n - 1)
         \cup {Append(l, t) : l \in {k \in PathLists(n - 1) : Len(k) = n - 1}, t \in TestPaths}

\* What find -print writes for a list of matches: one line per path.
RECURSIVE FindOutput(_)
FindOutput(l) ==
    IF l = <<>> THEN <<>> ELSE Head(l) \o newline \o FindOutput(Tail(l))

\* The characters a user may type at the prompt, and the texts made of them.
SelChars == {"-", "0", "1", "2", "3", "x"}

RECURSIVE Texts(_)
Texts(n) ==
    IF n = 0 THEN {<<>>}
    ELSE Texts(n - 1)
         \cup {Append(t, c) : t \in {u \in Texts(n - 1) : Len(u) = n - 1}, c \in SelChars}

Digits == <<"0", "1", "2", "3", "4", "5", "6", "7", "8", "9">>

DigitValue(c) == (CHOOSE i \in DOMAIN Digits : Digits[i] = c) - 1

\* The digits of an int literal, its sign removed.
Unsigned(s) == IF s # <<>> /\ Head(s) \in {"-", "+"} THEN Tail(s) ELSE s

\* int(s) succeeds: an optional sign and at least one digit.
IsIntLiteral(s) ==
    LET body == Unsigned(strip(s))
    IN  body # <<>> /\ \A i \in DOMAIN body : body[i] \in Range(Digits)

RECURSIVE DigitsValue(_)
DigitsValue(body) ==
    IF body = <<>> THEN 0
    ELSE 10 * DigitsValue(SubSeq(body, 1, Len(body) - 1)) + DigitValue(body[Len(body)])

\* int(s), for a text on which it succeeds.
int(s) ==
    IF Head(strip(s)) = "-" THEN 0 - DigitsValue(Unsigned(strip(s)))
    ELSE DigitsValue(Unsigned(strip(s)))

\* Line 159 without the strip: the final newline leaves an empty last field.
ExtractTestsNoStrip(out) == split(out, newline)

\* Line 159.
ExtractTests(out) == split(strip_chars(out, {"\n"}), newline)

\* lst[i] succeeds: Python also takes the indices -len(lst)..-1.
IndexInRange(lst, i) == 0 - Len(lst) <= i /\ i < Len(lst)

\* lst[i], for an index in range.
Index(lst, i) == IF i >= 0 THEN lst[i + 1] ELSE lst[Len(lst) + i + 1]

ExtInit ==
    /\ found \in PathLists(MaxTests)
    /\ output = FindOutput(found)
    /\ tests = <<>>
    /\ selection = <<>>
    /\ asked = 0
    /\ epc = "call"
    /\ eresult = <<>>

ExtIdle ==
    /\ found = <<>>
    /\ output = <<>>
    /\ tests = <<>>
    /\ selection = <<>>
    /\ asked = 0
    /\ epc = "idle"
    /\ eresult = <<>>

\* Lines 157-164 and, for a single test, line 166.
ExtCall ==
    /\ epc = "call"
    /\ IF output = <<>>
       THEN epc' = "returned" /\ eresult' = None /\ UNCHANGED tests
       ELSE /\ tests' = ExtractTests(output)
            /\ IF Len(tests') > 1
               THEN epc' = "prompt" /\ UNCHANGED eresult
               ELSE epc' = "returned" /\ eresult' = Index(tests', 0)
    /\ UNCHANGED <<found, output, selection, asked>>
    /\ UNCHANGED notExtVars

\* Lines 165-166: the user types s; int(s) and tests[test_index] may raise.
ExtSelect ==
    /\ epc = "prompt"
    /\ \E s \in Texts(MaxSelLen) :
        /\ selection' = s
        /\ asked' = asked + 1
        /\ IF ~IsIntLiteral(s)
           THEN epc' = "ValueError" /\ UNCHANGED eresult
           ELSE IF ~IndexInRange(tests, int(s))
           THEN epc' = "IndexError" /\ UNCHANGED eresult
           ELSE epc' = "returned" /\ eresult' = Index(tests, int(s))
    /\ UNCHANGED <<found, output, tests>>
    /\ UNCHANGED notExtVars

ExtNext == ExtCall \/ ExtSelect

(***************************************************************************)
(* Claims about extract_test_path.                                         *)
(***************************************************************************)
\* The text typed is a number in 0..n-1.
ValidSelection(s, n) == IsIntLiteral(s) /\ 0 <= int(s) /\ int(s) <= n - 1

\* C5: with two or more candidates, a selection that is not a number in
\* 0..n-1 leaves the call asking again: it neither raises nor returns.
C5_InvalidSelectionRetried ==
    (asked > 0 /\ ~ValidSelection(selection, Len(found))) => epc = "prompt"

\* C6: no match gives None and one match gives that path, both without a
\* prompt; two or more matches prompt exactly once and a valid index i gives
\* the i-th listed path; whatever is returned is one of the listed paths.
C6_DisambiguationPolicy ==
    /\ asked <= 1
    /\ Len(found) = 0 =>
         /\ epc \in {"call", "returned"} /\ asked = 0
         /\ epc = "returned" => eresult = None
    /\ Len(found) = 1 =>
         /\ epc \in {"call", "returned"} /\ asked = 0
         /\ epc = "returned" => eresult = found[1]
    /\ Len(found) >= 2 =>
         /\ epc # "call" => (epc = "prompt" <=> asked = 0)
         /\ (asked = 1 /\ ValidSelection(selection, Len(found))) =>
                epc = "returned" /\ eresult = found[int(selection) + 1]
    /\ (epc = "returned" /\ Len(found) > 0) => eresult \in Range(found)

\* C6's case: the second of several distinct listed paths was selected.
C6_Witness ==
    /\ epc = "returned"
    /\ Len(found) >= 3
    /\ asked = 1
    /\ selection = <<"1">>
    /\ found[1] # found[2]
    /\ eresult = found[2]

(***************************************************************************)
(* _get_vts_push_group_targets.                                            *)
(***************************************************************************)
\* The variables a direct call of _get_vts_push_group_targets leaves alone.
notPushVars == <<modVars, extVars, module_info, xmlVars, fqcnVars, splitVars, mainVars>>

_VTS_PUSH_DELIM == <<"-", ">">>

_VTS_PUSH_SUFFIX == <<".", "p", "u", "s", "h">>

\* rel_out_dir.
rel_out_dir == <<"o">>

\* The push group files under _VTS_PUSH_DIR.
ManifestNames == {<<"a">> \o _VTS_PUSH_SUFFIX, <<"b">> \o _VTS_PUSH_SUFFIX}

\* The lines a push group file may hold: a reference to either file (one of
\* them indented), two artifacts (one indented and without a device path)
\* and a blank line.
ManifestLines ==
    {<<"a">> \o _VTS_PUSH_SUFFIX,
     <<" ", "b">> \o _VTS_PUSH_SUFFIX,
     <<"x", "-", ">", "d">>,
     <<" ", "y">>,
     <<" ">>}

\* The files of at most n lines.
RECURSIVE LineSeqs(_)
LineSeqs(n) ==
    IF n = 0 THEN {<<>>}
    ELSE LineSeqs(n - 1)
         \cup {Append(f, l) : f \in {g \in LineSeqs(n - 1) : Len(g) = n - 1},
                              l \in ManifestLines}

\* The frame of one call: line 313 and the file iterator of line 317.
NewFrame(name) == [push_file |-> name, line_no |-> 1, targets |-> {}]

\* The innermost call, the file it reads and where it stands in it.
Top == stack[Len(stack)]
TopLines == files[Top.push_file]
AtLine == ppc = "running" /\ Top.line_no <= Len(TopLines)
\* Line 318.
TopTarget == strip(TopLines[Top.line_no])

\* Lines 328-329 with the split left out.
PushTargetUnsplit(target) == os_path_join(rel_out_dir, target)

\* Lines 328-329.
PushTarget(target) == os_path_join(rel_out_dir, split(target, _VTS_PUSH_DELIM)[1])

\* get_targets_from_vts_xml takes what an option contributed and moves on
\* to the next option tag.
VtsAccept(ts) ==
    /\ vtargets' = vtargets \cup ts
    /\ added' = Append(added, ts)
    /\ vidx' = vidx + 1

\* An exception leaves _get_vts_push_group_targets and, when there is one,
\* the get_targets_from_vts_xml that called it.
PushRaise(e) ==
    /\ ppc' = e
    /\ vpc' = IF vpc = "push-group" THEN e ELSE vpc
    /\ UNCHANGED <<files, push_file, stack, presult, vts_options, vidx, vtargets, added>>

PushInit ==
    /\ files \in [ManifestNames -> LineSeqs(MaxLines)]
    /\ push_file \in ManifestNames
    /\ stack = <<NewFrame(push_file)>>
    /\ ppc = "running"
    /\ presult = {}

PushIdle ==
    /\ files = <<>>
    /\ push_file = <<>>
    /\ stack = <<>>
    /\ ppc = "idle"
    /\ presult = {}

\* Lines 317-321: an empty line is skipped.
PgBlank ==
    /\ AtLine
    /\ TopTarget = <<>>
    /\ stack' = [stack EXCEPT ![Len(stack)].line_no = @ + 1]
    /\ UNCHANGED <<files, push_file, ppc, presult, vtsVars>>
    /\ UNCHANGED notPushVars

\* Lines 324-326 and 314-316: a line that names a push file starts a nested
\* call, which opens that file.
PgNested ==
    /\ AtLine
    /\ TopTarget # <<>>
    /\ endswith(TopTarget, _VTS_PUSH_SUFFIX)
    /\ Len(stack) < MaxStack
    /\ IF TopTarget \in DOMAIN files
       THEN /\ stack' = Append(stack, NewFrame(TopTarget))
            /\ UNCHANGED <<files, push_file, ppc, presult, vtsVars>>
       ELSE PushRaise("IOError")
    /\ UNCHANGED notPushVars

\* Lines 324-326: the nested call that would exceed the interpreter's
\* recursion limit raises instead.
PgOverflow ==
    /\ AtLine
    /\ TopTarget # <<>>
    /\ endswith(TopTarget, _VTS_PUSH_SUFFIX)
    /\ Len(stack) >= MaxStack
    /\ PushRaise("RecursionError")
    /\ UNCHANGED notPushVars

\* Lines 328-329: any other line is an artifact.
PgLeaf ==
    /\ AtLine
    /\ TopTarget # <<>>
    /\ ~endswith(TopTarget, _VTS_PUSH_SUFFIX)
    /\ stack' = [stack EXCEPT ![Len(stack)].line_no = @ + 1,
                              ![Len(stack)].targets = @ \cup {PushTarget(TopTarget)}]
    /\ UNCHANGED <<files, push_file, ppc, presult, vtsVars>>
    /\ UNCHANGED notPushVars

\* Line 330 and, in the caller, lines 325-327: a nested call returns its
\* targets, which the caller adds to its own before its next line.
PgReturnNested ==
    /\ ppc = "running"
    /\ Top.line_no > Len(TopLines)
    /\ Len(stack) > 1
    /\ stack' = [SubSeq(stack, 1, Len(stack) - 1) EXCEPT
                    ![Len(stack) - 1].line_no = @ + 1,
                    ![Len(stack) - 1].targets = @ \cup Top.targets]
    /\ UNCHANGED <<files, push_file, ppc, presult, vtsVars>>
    /\ UNCHANGED notPushVars

\* Line 330: the outermost call returns, to get_targets_from_vts_xml
\* (line 415) when that is the caller.
PgReturn ==
    /\ ppc = "running"
    /\ Top.line_no > Len(TopLines)
    /\ Len(stack) = 1
    /\ stack' = <<>>
    /\ presult' = Top.targets
    /\ ppc' = "returned"
    /\ IF vpc = "push-group"
       THEN VtsAccept(Top.targets) /\ vpc' = "loop"
       ELSE UNCHANGED <<vidx, vtargets, added, vpc>>
    /\ UNCHANGED <<files, push_file, vts_options>>
    /\ UNCHANGED notPushVars

PushNext == PgBlank \/ PgNested \/ PgOverflow \/ PgLeaf \/ PgReturnNested \/ PgReturn

(***************************************************************************)
(* Claims about _get_vts_push_group_targets.                               *)
(***************************************************************************)
\* The push files a file names.
Refs(name) ==
    {strip(files[name][i]) : i \in {j \in DOMAIN files[name] :
                                      endswith(strip(files[name][j]), _VTS_PUSH_SUFFIX)}}

\* The push files reachable from those of S, S included.
RECURSIVE ReachableFrom(_)
ReachableFrom(S) ==
    IF (UNION {Refs(n) : n \in S}) \subseteq S THEN S
    ELSE ReachableFrom(S \cup UNION {Refs(n) : n \in S})

\* No push file reaches itself.
Acyclic == \A n \in DOMAIN files : n \notin ReachableFrom(Refs(n))

\* The text of a line before the first "->", the whole line when it has none.
BeforeDelim(t) ==
    IF \E i \in 1..(Len(t) - 1) : t[i] = "-" /\ t[i + 1] = ">"
    THEN SubSeq(t, 1, (CHOOSE i \in 1..(Len(t) - 1) :
                          /\ t[i] = "-" /\ t[i + 1] = ">"
                          /\ \A j \in 1..(i - 1) : ~(t[j] = "-" /\ t[j + 1] = ">")) - 1)
    ELSE t

\* The artifact lines of a file: not blank and not naming a push file.
LeafLines(name) ==
    {strip(files[name][i]) : i \in {j \in DOMAIN files[name] :
        /\ strip(files[name][j]) # <<>>
        /\ ~endswith(strip(files[name][j]), _VTS_PUSH_SUFFIX)}}

\* The targets the claim C7 asks for.
ExpectedPushTargets(name) ==
    {rel_out_dir \o sep \o BeforeDelim(l) :
        l \in UNION {LeafLines(n) : n \in ReachableFrom({name})}}

\* C1: expanding a push file always ends, whatever the files name: no push
\* file is entered while it is already being expanded, and the recursion
\* limit is never hit.
C1_NoReentry ==
    /\ \A i, j \in DOMAIN stack : stack[i].push_file = stack[j].push_file => i = j
    /\ ppc # "RecursionError"

\* C7: on acyclic push files the call raises nothing, and it returns exactly
\* rel_out_dir joined with the part before "->" of every artifact line of
\* the file and of the files reachable from it.
C7_AcyclicExpansion ==
    Acyclic =>
        /\ ppc \in {"running", "returned"}
        /\ ppc = "returned" => presult = ExpectedPushTargets(push_file)

\* C7's case: the call returned the union of its own artifact and the two of
\* a nested file, one of which is that same artifact.
C7_Witness ==
    /\ ppc = "returned"
    /\ Acyclic
    /\ \E n \in Refs(push_file) :
          /\ LeafLines(push_file) # {}
          /\ LeafLines(push_file) \subseteq LeafLines(n)
          /\ Cardinality(LeafLines(n)) = 2
    /\ Cardinality(presult) = 2

(***************************************************************************)
(* Configuration documents.                                                *)
(***************************************************************************)
_COMPATIBILITY_PACKAGE_PREFIX ==
    <<"c", "o", "m", ".", "a", "n", "d", "r", "o", "i", "d", ".",
      "c", "o", "m", "p", "a", "t", "i", "b", "i", "l", "i", "t", "y">>

_CTS_JAR == <<"c", "t", "s", "-", "t", "r", "a", "d", "e", "f", "e", "d">>

_PERF_SETUP_LABEL == <<"p", "e", "r", "f", "-", "s", "e", "t", "u", "p", ".", "s", "h">>

_XML_NAME == "name"
_XML_VALUE == "value"

dot_apk == <<".", "a", "p", "k">>

\* The names module_info.is_module may know.
ModuleNames == {<<"f">>, <<"g">>}

\* module_info.is_module(name)
is_module(name) == name \in module_info

\* re.I, for the letters of ".apk".
Lower(c) ==
    CASE c = "A" -> "a" [] c = "P" -> "p" [] c = "K" -> "k"
      [] c = "C" -> "c" [] c = "G" -> "g" [] c = "E" -> "e" [] OTHER -> c

lower(s) == [i \in DOMAIN s |-> Lower(s[i])]

\* _APK_RE.match(value): '^[^/]+\.apk$', ignoring case.
_APK_RE_match(value) ==
    /\ Len(value) > Len(dot_apk)
    /\ lower(SubSeq(value, Len(value) - Len(dot_apk) + 1, Len(value))) = dot_apk
    /\ "/" \notin Range(value)

\* An element of a document: its tag and its attributes.
Element(tag, attrib) == [tag |-> tag, attrib |-> attrib]

\* <option value=v/>, <option name=n/> (no value) and <test class=c/>.
OptionValue(v) == Element("option", [value |-> v])
OptionNoValue == Element("option", [name |-> <<"n">>])
TestClass(c) == Element("test", [class |-> c])

\* The elements a document may hold.
XmlElements ==
    {OptionValue(<<"f">> \o dot_apk),
     OptionValue(<<" ", "g", ".", "A", "P", "K", " ">>),
     OptionValue(<<"d", "/", "f">> \o dot_apk),
     OptionValue(<<".", "/">> \o _PERF_SETUP_LABEL),
     OptionValue(_PERF_SETUP_LABEL \o dot_apk),
     OptionNoValue,
     TestClass(_COMPATIBILITY_PACKAGE_PREFIX \o <<".", "T">>),
     TestClass(<<"o", "r", "g", ".", "T">>)}

\* The documents of at most n elements, as the list of the root's descendants in
\* document order.
RECURSIVE Documents(_, _)
Documents(elements, n) ==
    IF n = 0 THEN {<<>>}
    ELSE Documents(elements, n - 1)
         \cup {Append(d, e) : d \in {c \in Documents(elements, n - 1) : Len(c) = n - 1},
                              e \in elements}

IsOption(e) == e.tag = "option"
HasClass(e) == "class" \in DOMAIN e.attrib

\* xml_root.findall('.//option')
option_tags(root) == SelectSeq(root, IsOption)

\* xml_root.findall(".//*[@class]")
nodes_with_class(root) == SelectSeq(root, HasClass)

(***************************************************************************)
(* get_targets_from_xml_root.                                              *)
(***************************************************************************)
\* The variables get_targets_from_xml_root leaves alone.
notXmlVars == <<modVars, extVars, pushVars, vtsVars, fqcnVars, splitVars, mainVars>>

\* Lines 277-288: what one option value adds to targets.
OptionTargets(value) ==
    IF _APK_RE_match(value)
    THEN IF is_module(SubSeq(value, 1, Len(value) - Len(dot_apk)))
         THEN {SubSeq(value, 1, Len(value) - Len(dot_apk))}
         ELSE {}
    ELSE IF contains(value, _PERF_SETUP_LABEL) THEN {_PERF_SETUP_LABEL}
    ELSE {}

XmlInit ==
    /\ xml_root \in Documents(XmlElements, MaxElems)
    /\ module_info \in SUBSET ModuleNames
    /\ xidx = 1
    /\ xtargets = {}
    /\ xpc = "options"

XmlIdle ==
    /\ xml_root = <<>>
    /\ xidx = 0
    /\ xtargets = {}
    /\ xpc = "idle"

\* Lines 274-288: one iteration over option_tags; line 276 raises KeyError
\* for an option without a value attribute.
XmlOption ==
    /\ xpc = "options"
    /\ xidx <= Len(option_tags(xml_root))
    /\ LET tag == option_tags(xml_root)[xidx]
       IN  IF _XML_VALUE \notin DOMAIN tag.attrib
           THEN xpc' = "KeyError" /\ UNCHANGED <<xidx, xtargets>>
           ELSE /\ xtargets' = xtargets \cup OptionTargets(strip(tag.attrib[_XML_VALUE]))
                /\ xidx' = xidx + 1
                /\ UNCHANGED xpc
    /\ UNCHANGED <<xml_root, module_info>>
    /\ UNCHANGED notXmlVars

\* Lines 274 and 292: the option loop ends and the class loop begins.
XmlOptionsDone ==
    /\ xpc = "options"
    /\ xidx > Len(option_tags(xml_root))
    /\ xpc' = "classes"
    /\ xidx' = 1
    /\ UNCHANGED <<xml_root, module_info, xtargets>>
    /\ UNCHANGED notXmlVars

\* Lines 293-296: one iteration over nodes_with_class.
XmlClass ==
    /\ xpc = "classes"
    /\ xidx <= Len(nodes_with_class(xml_root))
    /\ LET fqcn == strip(nodes_with_class(xml_root)[xidx].attrib["class"])
       IN  xtargets' = IF startswith(fqcn, _COMPATIBILITY_PACKAGE_PREFIX)
                       THEN xtargets \cup {_CTS_JAR}
                       ELSE xtargets
    /\ xidx' = xidx + 1
    /\ UNCHANGED <<xml_root, module_info, xpc>>
    /\ UNCHANGED notXmlVars

\* Lines 297-298.
XmlReturn ==
    /\ xpc = "classes"
    /\ xidx > Len(nodes_with_class(xml_root))
    /\ xpc' = "returned"
    /\ UNCHANGED <<xml_root, module_info, xidx, xtargets>>
    /\ UNCHANGED notXmlVars

XmlNext == XmlOption \/ XmlOptionsDone \/ XmlClass \/ XmlReturn

(***************************************************************************)
(* Claims about get_targets_from_xml_root.                                 *)
(***************************************************************************)
\* An option element without a value attribute.
Malformed(e) == IsOption(e) /\ _XML_VALUE \notin DOMAIN e.attrib

\* The trimmed values of the options of a document that have one.
OptionValues(root) ==
    {strip(root[i].attrib[_XML_VALUE]) :
        i \in {j \in DOMAIN root : IsOption(root[j]) /\ ~Malformed(root[j])}}

\* v is a bare file name (no path separator) with the extension .apk.
BareApk(v) ==
    /\ "/" \notin Range(v)
    /\ \E n \in 1..(Len(v) - 4) : lower(SubSeq(v, n + 1, Len(v))) = dot_apk /\ n + 4 = Len(v)

\* The union the claim C8 asks for.
ExpectedXmlTargets(root) ==
    {n \in module_info :
        \E v \in OptionValues(root) : BareApk(v) /\ SubSeq(v, 1, Len(v) - 4) = n}
    \cup (IF \E v \in OptionValues(root) : ~BareApk(v) /\ contains(v, _PERF_SETUP_LABEL)
          THEN {_PERF_SETUP_LABEL} ELSE {})
    \cup (IF \E i \in DOMAIN root :
                HasClass(root[i])
                /\ startswith(strip(root[i].attrib["class"]), _COMPATIBILITY_PACKAGE_PREFIX)
          THEN {_CTS_JAR} ELSE {})

\* C8: for every document the call returns, and what it returns is exactly
\* the union of the verified apk names, the perf setup script and the
\* compatibility harness jar that the document's elements call for.
C8_ExactTargets ==
    /\ xpc # "KeyError"
    /\ xpc = "returned" => xtargets = ExpectedXmlTargets(xml_root)

\* The same union, on the documents the call does return for.
XmlTargetsWhenReturned ==
    xpc = "returned" => xtargets = ExpectedXmlTargets(xml_root)

\* C9: a document with an option that has no value attribute does not make
\* the call fail: the option is skipped and the targets of all the other
\* elements are returned.
C9_MalformedOptionSkipped ==
    (\E i \in DOMAIN xml_root : Malformed(xml_root[i])) =>
        /\ xpc \in {"options", "classes", "returned"}
        /\ xpc = "returned" => xtargets = ExpectedXmlTargets(xml_root)

(***************************************************************************)
(* get_targets_from_vts_xml.                                               *)
(***************************************************************************)
_VTS_TEST_MODULE ==
    <<"t", "e", "s", "t", "-", "m", "o", "d", "u", "l", "e", "-", "n", "a", "m", "e">>

_VTS_BINARY_SRC ==
    <<"b", "i", "n", "a", "r", "y", "-", "t", "e", "s", "t", "-",
      "s", "o", "u", "r", "c", "e">>

_VTS_PUSH_GROUP == <<"p", "u", "s", "h", "-", "g", "r", "o", "u", "p">>

_VTS_PUSH == <<"p", "u", "s", "h">>

_VTS_BINARY_SRC_DELIM == <<":", ":">>

_VTS_BITNESS ==
    <<"a", "p", "p", "e", "n", "d", "-", "b", "i", "t", "n", "e", "s", "s">>

_VTS_BITNESS_TRUE == <<"t", "r", "u", "e">>

_VTS_BITNESS_32 == <<"3", "2">>

_VTS_BITNESS_64 == <<"6", "4">>

\* <option name=n value=v/> and <option value=v/> (no name).
Option(n, v) == Element("option", [name |-> n, value |-> v])
OptionNoName(v) == Element("option", [value |-> v])

\* The options a vts document may hold.
VtsOptions ==
    {Option(_VTS_PUSH, <<"r", "-", ">", "d">>),
     Option(_VTS_PUSH, <<"r", "3", "2", "-", ">", "d">>),
     Option(_VTS_BITNESS, _VTS_BITNESS_TRUE),
     Option(_VTS_BITNESS, <<"f", "a", "l", "s", "e">>),
     Option(_VTS_TEST_MODULE, <<"f">>),
     Option(_VTS_BINARY_SRC, <<"_", "3", "2", ":", ":", "t">>),
     Option(_VTS_BINARY_SRC, <<"t", "-", ">", "d">>),
     Option(_VTS_BINARY_SRC, <<"t">>),
     Option(_VTS_PUSH_GROUP, <<"a">> \o _VTS_PUSH_SUFFIX),
     OptionNoName(<<"v">>)}

\* The push group files a vts document's push-group option is expanded in:
\* a.push names b.push, which holds an artifact or names a.push in turn.
VtsPushFiles ==
    {[n \in ManifestNames |->
        IF n = <<"a">> \o _VTS_PUSH_SUFFIX
        THEN <<<<" ", "b">> \o _VTS_PUSH_SUFFIX, <<"x", "-", ">", "d">>>>
        ELSE <<last, <<" ">>>>] : last \in {<<"y">>, <<"a">> \o _VTS_PUSH_SUFFIX}}

\* tag.attrib[_XML_VALUE] or tag.attrib[_XML_NAME] raises KeyError.
LacksAttribute(tag) ==
    _XML_VALUE \notin DOMAIN tag.attrib \/ _XML_NAME \notin DOMAIN tag.attrib

\* Lines 342-346: the tag is append-bitness with the value true.
IsBitnessTrue(tag) ==
    /\ strip(tag.attrib[_XML_NAME]) = _VTS_BITNESS
    /\ strip(tag.attrib[_XML_VALUE]) = _VTS_BITNESS_TRUE

\* _specified_bitness looking at the first option tag only.
_specified_bitness_first_only(tags) ==
    IF tags = <<>> THEN "False"
    ELSE IF LacksAttribute(Head(tags)) THEN "KeyError"
    ELSE IF IsBitnessTrue(Head(tags)) THEN "True"
    ELSE "False"

\* _specified_bitness, lines 341-347, on the option tags of the document:
\* "True", "False", or "KeyError" when a tag without its attributes comes
\* before any append-bitness tag that is true.
RECURSIVE _specified_bitness(_)
_specified_bitness(tags) ==
    IF tags = <<>> THEN "False"
    ELSE IF LacksAttribute(Head(tags)) THEN "KeyError"
    ELSE IF IsBitnessTrue(Head(tags)) THEN "True"
    ELSE _specified_bitness(Tail(tags))

\* _VTS_BINARY_SRC_DELIM_RE.match(value), line 85: the group 'target' of
\* '.*::(?P<target>.*)$', or None when the pattern does not match. '.' takes
\* no newline and '$' stands at the end or before one final newline, so the
\* "::" is on the first line and only a final newline may follow the
\* target; the greedy prefix leaves the text after the last "::".
_VTS_BINARY_SRC_DELIM_RE_match(value) ==
    LET nl == find(value, newline)
        line == IF nl = 0 THEN value ELSE SubSeq(value, 1, nl - 1)
    IN  IF contains(line, _VTS_BINARY_SRC_DELIM) /\ nl \in {0, Len(value)}
        THEN SubSeq(line, rfind(line, _VTS_BINARY_SRC_DELIM) + 2, Len(line))
        ELSE None

\* _get_vts_binary_src_target, lines 367-376.
_get_vts_binary_src_target(value, out_dir) ==
    IF _VTS_BINARY_SRC_DELIM_RE_match(value) # None
    THEN os_path_join(out_dir, _VTS_BINARY_SRC_DELIM_RE_match(value))
    ELSE IF contains(value, _VTS_PUSH_DELIM)
    THEN os_path_join(out_dir,
                      strip(SubSeq(value, 1, find(value, _VTS_PUSH_DELIM) - 1)))
    ELSE value

\* The option tag the loop of line 401 is at, and its trimmed attributes.
VtsTag == vts_options[vidx]
VtsValue == strip(VtsTag.attrib[_XML_VALUE])
VtsName == strip(VtsTag.attrib[_XML_NAME])
VtsAtTag == vpc = "loop" /\ vidx <= Len(vts_options)
VtsAtNamed(n) == VtsAtTag /\ ~LacksAttribute(VtsTag) /\ VtsName = n

VtsInit ==
    /\ vts_options \in Documents(VtsOptions, MaxOptions)
    /\ module_info \in SUBSET ModuleNames
    /\ vidx = 1
    /\ vtargets = {}
    /\ added = <<>>
    /\ vpc = "loop"
    /\ files \in VtsPushFiles
    /\ push_file = <<>>
    /\ stack = <<>>
    /\ ppc = "idle"
    /\ presult = {}

VtsIdle ==
    /\ vts_options = <<>>
    /\ vidx = 0
    /\ vtargets = {}
    /\ added = <<>>
    /\ vpc = "idle"

\* The characters of a binary-test-source value: those of the two
\* delimiters, the path separator, a letter, and white space.
BinSrcChars == {":", "-", ">", "/", "t", " ", "\n"}

\* The value attributes of a binary-test-source option, as written.
BinSrcValues == UNION {[1..n -> BinSrcChars] : n \in 0..MaxValueLen}

\* get_targets_from_vts_xml on a document whose one option is a
\* binary-test-source.
BinSrcInit ==
    /\ vts_options \in {<<Option(_VTS_BINARY_SRC, v)>> : v \in BinSrcValues}
    /\ vidx = 1
    /\ vtargets = {}
    /\ added = <<>>
    /\ vpc = "loop"

\* What the steps of get_targets_from_vts_xml itself leave alone.
VtsFrame ==
    /\ UNCHANGED <<vts_options, module_info>>
    /\ UNCHANGED <<modVars, extVars, xmlVars, fqcnVars, splitVars, mainVars>>

\* Lines 402-403: an option tag without value or name raises KeyError.
VtsKeyError ==
    /\ VtsAtTag
    /\ LacksAttribute(VtsTag)
    /\ vpc' = "KeyError"
    /\ UNCHANGED <<vidx, vtargets, added, pushVars>>
    /\ VtsFrame

\* Lines 404-409.
VtsTestModule ==
    /\ VtsAtNamed(_VTS_TEST_MODULE)
    /\ VtsAccept(IF is_module(VtsValue) THEN {VtsValue} ELSE {})
    /\ UNCHANGED <<vpc, pushVars>>
    /\ VtsFrame

\* Lines 410-411.
VtsBinarySrc ==
    /\ VtsAtNamed(_VTS_BINARY_SRC)
    /\ VtsAccept({_get_vts_binary_src_target(VtsValue, rel_out_dir)})
    /\ UNCHANGED <<vpc, pushVars>>
    /\ VtsFrame

\* Lines 412-415 and 313-316: the call of _get_vts_push_group_targets, whose
\* steps are those of PushNext.
VtsPushGroup ==
    /\ VtsAtNamed(_VTS_PUSH_GROUP)
    /\ IF VtsValue \in DOMAIN files
       THEN /\ push_file' = VtsValue
            /\ stack' = <<NewFrame(VtsValue)>>
            /\ ppc' = "running"
            /\ vpc' = "push-group"
       ELSE /\ vpc' = "IOError"
            /\ UNCHANGED <<push_file, stack, ppc>>
    /\ UNCHANGED <<vidx, vtargets, added, files, presult>>
    /\ VtsFrame

\* Lines 416-425.
VtsPush ==
    /\ VtsAtNamed(_VTS_PUSH)
    /\ LET push_target == split(VtsValue, _VTS_PUSH_DELIM)[1]
           bitness == _specified_bitness(vts_options)
       IN  IF bitness = "KeyError"
           THEN vpc' = "KeyError" /\ UNCHANGED <<vidx, vtargets, added>>
           ELSE /\ VtsAccept(
                     IF bitness = "True"
                     THEN {os_path_join(rel_out_dir, push_target \o _VTS_BITNESS_32),
                           os_path_join(rel_out_dir, push_target \o _VTS_BITNESS_64)}
                     ELSE {os_path_join(rel_out_dir, push_target)})
                /\ UNCHANGED vpc
    /\ UNCHANGED pushVars
    /\ VtsFrame

\* Line 401: an option of any other name adds nothing.
VtsOther ==
    /\ VtsAtTag
    /\ ~LacksAttribute(VtsTag)
    /\ VtsName \notin {_VTS_TEST_MODULE, _VTS_BINARY_SRC, _VTS_PUSH_GROUP, _VTS_PUSH}
    /\ VtsAccept({})
    /\ UNCHANGED <<vpc, pushVars>>
    /\ VtsFrame

\* Lines 426-427.
VtsReturn ==
    /\ vpc = "loop"
    /\ vidx > Len(vts_options)
    /\ vpc' = "returned"
    /\ UNCHANGED <<vidx, vtargets, added, pushVars>>
    /\ VtsFrame

VtsNext ==
    \/ VtsKeyError \/ VtsTestModule \/ VtsBinarySrc \/ VtsPushGroup \/ VtsPush
    \/ VtsOther \/ VtsReturn
    \/ PushNext

\* The steps a document of binary-test-source options takes.
BinSrcNext == VtsBinarySrc \/ VtsReturn

(***************************************************************************)
(* Claims about get_targets_from_vts_xml.                                  *)
(***************************************************************************)
\* Some option of the document, wherever it stands, is append-bitness = true.
AnyBitnessTrue ==
    \E i \in DOMAIN vts_options :
        /\ ~LacksAttribute(vts_options[i])
        /\ vts_options[i].attrib[_XML_NAME] = _VTS_BITNESS
        /\ vts_options[i].attrib[_XML_VALUE] = _VTS_BITNESS_TRUE

\* The option at i is a push option.
IsPushOption(i) ==
    /\ ~LacksAttribute(vts_options[i])
    /\ vts_options[i].attrib[_XML_NAME] = _VTS_PUSH

\* The rel of a push option's value rel->dev.
PushRel(i) == BeforeDelim(vts_options[i].attrib[_XML_VALUE])

\* C10: what a push option rel->dev adds to the result is out_dir/rel32 and
\* out_dir/rel64 when any option of the document, before or after it, is
\* append-bitness = true, and out_dir/rel alone otherwise; the returned set
\* holds what each option added.
C10_PushBitness ==
    \A i \in DOMAIN added :
        /\ IsPushOption(i) =>
             added[i] = IF AnyBitnessTrue
                        THEN {rel_out_dir \o sep \o PushRel(i) \o <<"3", "2">>,
                              rel_out_dir \o sep \o PushRel(i) \o <<"6", "4">>}
                        ELSE {rel_out_dir \o sep \o PushRel(i)}
        /\ vpc = "returned" => added[i] \subseteq vtargets

\* C10's case: a push option followed, later in the document, by
\* append-bitness = true; the call returned both suffixed targets.
C10_Witness ==
    /\ vpc = "returned"
    /\ Len(vts_options) >= 2
    /\ IsPushOption(1)
    /\ AnyBitnessTrue
    /\ added[1] = {<<"o", "/", "r", "3", "2">>, <<"o", "/", "r", "6", "4">>}

\* The option at i is a binary-test-source option.
IsBinarySrcOption(i) ==
    /\ ~LacksAttribute(vts_options[i])
    /\ strip(vts_options[i].attrib[_XML_NAME]) = _VTS_BINARY_SRC

\* The value v of the option at i, as handed to _get_vts_binary_src_target.
BinSrcValue(i) == strip(vts_options[i].attrib[_XML_VALUE])

\* The parts of v after, and before, an occurrence of the delimiter d.
AfterDelim(v, d) == {SubSeq(v, k + Len(d), Len(v)) : k \in Occurrences(v, d)}
BeforeDelims(v, d) == {SubSeq(v, 1, k - 1) : k \in Occurrences(v, d)}

\* The targets the three forms allow for v: (i) out_dir_rel prefixed to the
\* part after "::", (ii) else out_dir_rel prefixed to the part before "->"
\* (trimmed or not), (iii) else v itself.
ExpectedBinSrcTargets(v) ==
    IF contains(v, _VTS_BINARY_SRC_DELIM)
    THEN {rel_out_dir \o sep \o p : p \in AfterDelim(v, _VTS_BINARY_SRC_DELIM)}
    ELSE IF contains(v, _VTS_PUSH_DELIM)
    THEN {rel_out_dir \o sep \o p : p \in BeforeDelims(v, _VTS_PUSH_DELIM)}
         \cup {rel_out_dir \o sep \o strip(p) : p \in BeforeDelims(v, _VTS_PUSH_DELIM)}
    ELSE {v}

\* C11: a binary-test-source option of value v adds one target: out_dir_rel
\* prefixed to the part of v after "::" when v contains "::" (also when it
\* contains "->" as well), else out_dir_rel prefixed to the part before "->"
\* when v contains "->", else v itself; in the first two forms the target
\* starts with out_dir_rel.
C11_BinarySrcForms ==
    \A i \in DOMAIN added :
        IsBinarySrcOption(i) =>
            \E t \in ExpectedBinSrcTargets(BinSrcValue(i)) : added[i] = {t}

\* The part of C11 the code keeps: when v is one line and the part taken
\* from it is a relative path, the target is as the three forms say.
BinSrcRelativeForms ==
    \A i \in DOMAIN added :
        LET v == BinSrcValue(i)
        IN  /\ IsBinarySrcOption(i)
            /\ ~contains(v, newline)
            /\ \A t \in added[i] : ~startswith(t, sep)
            => \E t \in ExpectedBinSrcTargets(v) : added[i] = {t}

(***************************************************************************)
(* get_fully_qualified_class_name.                                         *)
(***************************************************************************)
notFqcnVars == <<modVars, extVars, pushVars, module_info, xmlVars, vtsVars, splitVars, mainVars>>

\* The keyword of _PACKAGE_RE.
package_kw == <<"p", "a", "c", "k", "a", "g", "e">>

\* _PACKAGE_RE.match(line), line 36: the group 'package' of
\* '\s*package\s+(?P<package>[^;]+)\s*;\s*' (ignoring case), or None when the
\* line does not match. The match starts at the start of the line; [^;]+ is
\* greedy and takes everything up to the first ';', white space included,
\* and when only white space stands between the keyword and the ';' it
\* takes the last white space character, leaving at least one to \s+.
_PACKAGE_RE_match(line) ==
    LET s == lstrip(line, Whitespace)
        rest == SubSeq(s, Len(package_kw) + 1, Len(s))
        k == Len(rest) - Len(lstrip(rest, Whitespace))
        j == find(rest, <<";">>)
    IN  IF ~startswith(lower(s), package_kw) \/ k = 0 \/ j = 0 THEN None
        ELSE IF j > k + 1 THEN SubSeq(rest, k + 1, j - 1)
        ELSE IF k >= 2 THEN SubSeq(rest, k, k)
        ELSE None

\* os.path.split(p)[1]
os_path_split_tail(p) == SubSeq(p, rfind(p, sep) + 1, Len(p))

\* os.path.splitext(p)[0]: the extension starts at the last dot of the last
\* component, unless only dots stand before it in that component.
os_path_splitext_root(p) ==
    LET sepIndex == rfind(p, sep)
        dotIndex == rfind(p, <<".">>)
    IN  IF dotIndex > sepIndex /\ \E i \in (sepIndex + 1)..(dotIndex - 1) : p[i] # "."
        THEN SubSeq(p, 1, dotIndex - 1)
        ELSE p

\* The java files test_path may name.
ClassPaths ==
    {<<"/", "d", "/", "B", ".", "j">>,
     <<"/", "d", ".", "e", "/", "B">>,
     <<"/", "B", ".", "x", ".", "j">>}

\* The lines a java file may hold, each with its line end.
JavaLines ==
    {package_kw \o <<" ", "a", ".", "b", ";", "\n">>,
     <<" ">> \o package_kw \o <<"\t", "c", ";", " ", "/", "/", "\n">>,
     package_kw \o <<" ", "a", " ", ";", "\n">>,
     <<"P">> \o Tail(package_kw) \o <<" ", "a", ";", "\n">>,
     <<"/", "/", " ">> \o package_kw \o <<" ", "a", ";", "\n">>,
     package_kw \o <<"s", " ", "a", ";", "\n">>,
     package_kw \o <<" ", "a", "\n">>,
     <<"i", " ", "a", ";", "\n">>,
     <<"\n">>}

\* Line 135: the file is open and the loop of line 136 is at its first line.
FqcnInit ==
    /\ test_path \in ClassPaths
    /\ class_file \in UNION {[1..n -> JavaLines] : n \in 0..MaxFileLines}
    /\ line_no = 1
    /\ qpc = "scan"
    /\ qresult = None

FqcnIdle ==
    /\ test_path = <<>>
    /\ class_file = <<>>
    /\ line_no = 0
    /\ qpc = "idle"
    /\ qresult = None

FqcnAtLine == qpc = "scan" /\ line_no <= Len(class_file)

\* Lines 136-138: the line is no package declaration; on to the next one.
FqcnNextLine ==
    /\ FqcnAtLine
    /\ _PACKAGE_RE_match(class_file[line_no]) = None
    /\ line_no' = line_no + 1
    /\ UNCHANGED <<test_path, class_file, qpc, qresult>>
    /\ UNCHANGED notFqcnVars

\* Lines 138-141: the line matches; package and class name are returned.
FqcnReturn ==
    /\ FqcnAtLine
    /\ _PACKAGE_RE_match(class_file[line_no]) # None
    /\ LET package == _PACKAGE_RE_match(class_file[line_no])
           cls == os_path_splitext_root(os_path_split_tail(test_path))
       IN  qresult' = package \o <<".">> \o cls
    /\ qpc' = "returned"
    /\ UNCHANGED <<test_path, class_file, line_no>>
    /\ UNCHANGED notFqcnVars

\* Line 142: the file ended.
FqcnRaise ==
    /\ qpc = "scan"
    /\ line_no > Len(class_file)
    /\ qpc' = "MissingPackageNameError"
    /\ UNCHANGED <<test_path, class_file, line_no, qresult>>
    /\ UNCHANGED notFqcnVars

FqcnNext == FqcnNextLine \/ FqcnReturn \/ FqcnRaise

(***************************************************************************)
(* Claims about get_fully_qualified_class_name.                            *)
(***************************************************************************)
\* The dotted package a line declares, or None when the line is no package
\* declaration: the keyword (in any case), white space, a name without
\* white space, and a ';' that white space may precede and anything follow.
DeclaredPackage(line) ==
    LET s == strip(line)
        rest == SubSeq(s, Len(package_kw) + 1, Len(s))
        body == lstrip(rest, Whitespace)
        name == rstrip(SubSeq(body, 1, find(body, <<";">>) - 1), Whitespace)
    IN  IF /\ startswith(lower(s), package_kw)
           /\ rest # body
           /\ contains(body, <<";">>)
           /\ name # <<>>
           /\ Range(name) \cap Whitespace = {}
        THEN name
        ELSE None

\* The lines of the file that are package declarations.
Declarations == {i \in DOMAIN class_file : DeclaredPackage(class_file[i]) # None}

\* The base name of a path, without its extension.
BaseNameNoExtension(path) ==
    LET base == split(path, sep)[Len(split(path, sep))]
        fields == split(base, <<".">>)
    IN  IF Len(fields) = 1 THEN base
        ELSE join(<<".">>, SubSeq(fields, 1, Len(fields) - 1))

\* C12: get_fully_qualified_class_name returns the package declared by the
\* first package declaration of the file, a dot, and the base name of the
\* file without its extension, whatever later lines declare; it raises
\* MissingPackageNameError exactly when no line is a package declaration.
C12_FirstPackageDeclaration ==
    /\ qpc = "returned" =>
         /\ Declarations # {}
         /\ qresult = DeclaredPackage(class_file[SetMin(Declarations)])
                      \o <<".">> \o BaseNameNoExtension(test_path)
    /\ qpc = "MissingPackageNameError" => Declarations = {}

\* The part of C12 the code keeps: on files whose declarations have no
\* white space before the ';', the result is as C12 says.
FqcnWhenNameEndsAtSemicolon ==
    (\A i \in DOMAIN class_file :
        _PACKAGE_RE_match(class_file[i]) \in {None, DeclaredPackage(class_file[i])})
    => C12_FirstPackageDeclaration

(***************************************************************************)
(* split_methods.                                                          *)
(***************************************************************************)
notSplitVars == <<modVars, extVars, pushVars, module_info, xmlVars, vtsVars, fqcnVars, mainVars>>

TooManyMethodsError == <<"TooManyMethodsError">>

\* A split that cuts at the first separator only.
split_methods_at_first_hash(input) ==
    IF ~contains(input, <<"#">>) THEN <<input, {}>>
    ELSE <<SubSeq(input, 1, find(input, <<"#">>) - 1),
           Range(split(SubSeq(input, find(input, <<"#">>) + 1, Len(input)), <<",">>))>>

\* split_methods, lines 110-119: the pair returned, or the error raised.
split_methods(input) ==
    LET parts == split(input, <<"#">>)
    IN  IF Len(parts) = 1 THEN <<parts[1], {}>>
        ELSE IF Len(parts) = 2 THEN <<parts[1], Range(split(parts[2], <<",">>))>>
        ELSE TooManyMethodsError

\* The characters of the user's input: the two delimiters and two letters.
InputChars == {"#", ",", "a", "b"}

UserInputs == UNION {[1..n -> InputChars] : n \in 0..MaxInputLen}

SplitInit ==
    /\ user_input \in UserInputs
    /\ mpc = "called"
    /\ mresult = None

SplitIdle ==
    /\ user_input = <<>>
    /\ mpc = "idle"
    /\ mresult = None

\* Lines 111-114: one of the two return statements.
SplitReturn ==
    /\ mpc = "called"
    /\ split_methods(user_input) # TooManyMethodsError
    /\ mresult' = split_methods(user_input)
    /\ mpc' = "returned"
    /\ UNCHANGED user_input
    /\ UNCHANGED notSplitVars

\* Lines 115-119.
SplitRaise ==
    /\ mpc = "called"
    /\ split_methods(user_input) = TooManyMethodsError
    /\ mpc' = "TooManyMethodsError"
    /\ UNCHANGED <<user_input, mresult>>
    /\ UNCHANGED notSplitVars

SplitNext == SplitReturn \/ SplitRaise

(***************************************************************************)
(* Claims about split_methods.                                             *)
(***************************************************************************)
\* The positions of c in s.
Positions(s, c) == {i \in DOMAIN s : s[i] = c}

\* The position of the one '#' of the input.
HashAt == CHOOSE i \in Positions(user_input, "#") : TRUE

\* The strings that commas separate in t: each runs from one comma, or the
\* start, to the next comma, or the end.
CommaFields(t) ==
    LET cuts == Positions(t, ",") \cup {0, Len(t) + 1}
    IN  {SubSeq(t, i + 1, j - 1) :
            <<i, j>> \in {c \in cuts \X cuts :
                            c[1] < c[2] /\ \A k \in cuts : ~(c[1] < k /\ k < c[2])}}

\* C13: the number of '#' in the input decides the outcome of
\* split_methods: none, the input and no methods; one, the text left of it
\* and the strings that commas separate in the text right of it; two or
\* more, TooManyMethodsError and no result.
C13_HashCountDecides ==
    mpc # "called" =>
        LET n == Cardinality(Positions(user_input, "#"))
        IN  /\ n = 0 => mpc = "returned" /\ mresult = <<user_input, {}>>
            /\ n = 1 =>
                 /\ mpc = "returned"
                 /\ mresult = <<SubSeq(user_input, 1, HashAt - 1),
                                CommaFields(SubSeq(user_input, HashAt + 1,
                                                   Len(user_input)))>>
            /\ n >= 2 => mpc = "TooManyMethodsError" /\ mresult = None

\* C13's case: an input with one '#' and two method names was split.
C13_Witness ==
    /\ mpc = "returned"
    /\ Cardinality(Positions(user_input, "#")) = 1
    /\ mresult[1] # <<>>
    /\ Cardinality(mresult[2]) = 2
    /\ <<>> \notin mresult[2]

\* C14: whenever split_methods returns a pair, its locator is a non-empty
\* string, also when the input is empty or begins with '#'.
C14_LocatorNonEmpty == mpc = "returned" => mresult[1] # <<>>

(***************************************************************************)
(* atest.main.                                                             *)
(***************************************************************************)
notMainVars ==
    <<modVars, extVars, pushVars, module_info, xmlVars, vtsVars, fqcnVars, splitVars>>

EXIT_CODE_ENV_NOT_SETUP == 1
EXIT_CODE_BUILD_FAILURE == 2
BUILD_STEP == "build"
INSTALL_STEP == "install"
TEST_STEP == "test"
ALL_STEPS == <<BUILD_STEP, INSTALL_STEP, TEST_STEP>>

\* args.steps: one entry per -b, -i or -t given, in the order given; the
\* empty sequence stands for the None of a command line without them.
StepOptions == UNION {[1..n -> Range(ALL_STEPS)] : n \in 0..MaxStepOptions}

\* The run commands translator.translate may return, each a sequence of words.
TranslatedCommands ==
    {SubSeq(<<<<"run1">>, <<"run2">>, <<"run3">>>>, 1, n) : n \in 0..MaxCommands}

\* [cmd + flag for cmd in commands]
WithFlag(commands, flag) == [i \in DOMAIN commands |-> Append(commands[i], flag)]

\* Line 297: the arguments are parsed.
MainInit ==
    /\ args \in [steps : StepOptions, wait_for_debugger : BOOLEAN]
    /\ steps = <<>>
    /\ build_targets = {}
    /\ run_commands = <<>>
    /\ success = "unset"
    /\ executed = <<>>
    /\ apc = "start"
    /\ exit_code = 0

MainIdle ==
    /\ args = [steps |-> <<>>, wait_for_debugger |-> FALSE]
    /\ steps = <<>>
    /\ build_targets = {}
    /\ run_commands = <<>>
    /\ success = "unset"
    /\ executed = <<>>
    /\ apc = "idle"
    /\ exit_code = 0

\* Lines 299-300: an environment variable is missing.
MainEnvNotSetup ==
    /\ apc = "start"
    /\ apc' = "returned"
    /\ exit_code' = EXIT_CODE_ENV_NOT_SETUP
    /\ UNCHANGED <<args, steps, build_targets, run_commands, success, executed>>
    /\ UNCHANGED notMainVars

\* Lines 301-311: the tests are translated, adb is added when missing, and
\* the steps are those given, or all of them when none was given.
MainTranslate ==
    /\ apc = "start"
    /\ \E commands \in TranslatedCommands, targets \in SUBSET {"t"},
          missing_adb \in BOOLEAN :
          /\ run_commands' = IF args.wait_for_debugger
                             THEN WithFlag(commands, "--wait-for-debugger")
                             ELSE commands
          /\ build_targets' = IF missing_adb THEN targets \cup {"adb"} ELSE targets
    /\ steps' = IF args.steps # <<>> THEN args.steps ELSE ALL_STEPS
    /\ apc' = "build"
    /\ UNCHANGED <<args, success, executed, exit_code>>
    /\ UNCHANGED notMainVars

\* A build step whose failure does not end main.
MainBuildFailureIgnored ==
    /\ apc = "build"
    /\ BUILD_STEP \in Range(steps)
    /\ \E ok \in {"True", "False"} : success' = ok
    /\ apc' = "install"
    /\ UNCHANGED <<args, steps, build_targets, run_commands, executed, exit_code>>
    /\ UNCHANGED notMainVars

\* Lines 312-315: the build step; a failed build ends main.
MainBuild ==
    /\ apc = "build"
    /\ BUILD_STEP \in Range(steps)
    /\ \E ok \in {"True", "False"} :
          /\ success' = ok
          /\ IF ok = "True"
             THEN apc' = "install" /\ UNCHANGED exit_code
             ELSE apc' = "returned" /\ exit_code' = EXIT_CODE_BUILD_FAILURE
    /\ UNCHANGED <<args, steps, build_targets, run_commands, executed>>
    /\ UNCHANGED notMainVars

\* Line 312: the build step is not among the steps.
MainNoBuild ==
    /\ apc = "build"
    /\ BUILD_STEP \notin Range(steps)
    /\ apc' = "install"
    /\ UNCHANGED <<args, steps, build_targets, run_commands, success, executed, exit_code>>
    /\ UNCHANGED notMainVars

\* Lines 316-322: without the install step the target preparers are
\* disabled; an install step without a test step adds the test step.
MainInstall ==
    /\ apc = "install"
    /\ IF INSTALL_STEP \notin Range(steps)
       THEN /\ run_commands' = WithFlag(run_commands, "--disable-target-preparers")
            /\ UNCHANGED steps
       ELSE IF TEST_STEP \notin Range(steps)
       THEN /\ steps' = Append(steps, TEST_STEP)
            /\ UNCHANGED run_commands
       ELSE UNCHANGED <<steps, run_commands>>
    /\ apc' = "test"
    /\ UNCHANGED <<args, build_targets, success, executed, exit_code>>
    /\ UNCHANGED notMainVars

MainAtCommand ==
    /\ apc = "test"
    /\ TEST_STEP \in Range(steps)
    /\ Len(executed) < Len(run_commands)

\* Lines 323-324 and 286-288: run_tests executes the next run command.
MainRunCommand ==
    /\ MainAtCommand
    /\ executed' = Append(executed, run_commands[Len(executed) + 1])
    /\ UNCHANGED <<args, steps, build_targets, run_commands, success, apc, exit_code>>
    /\ UNCHANGED notMainVars

\* Line 288: the run command exits with an error and check_call raises.
MainRunCommandFails ==
    /\ MainAtCommand
    /\ executed' = Append(executed, run_commands[Len(executed) + 1])
    /\ apc' = "CalledProcessError"
    /\ UNCHANGED <<args, steps, build_targets, run_commands, success, exit_code>>
    /\ UNCHANGED notMainVars

\* Lines 323-324: main ends, after the last run command or without the
\* test step; sys.exit(None) is exit status 0.
MainReturn ==
    /\ apc = "test"
    /\ TEST_STEP \in Range(steps) => Len(executed) = Len(run_commands)
    /\ apc' = "returned"
    /\ UNCHANGED <<args, steps, build_targets, run_commands, success, executed, exit_code>>
    /\ UNCHANGED notMainVars

MainNext ==
    \/ MainEnvNotSetup \/ MainTranslate \/ MainBuild \/ MainNoBuild
    \/ MainInstall \/ MainRunCommand \/ MainRunCommandFails \/ MainReturn

(***************************************************************************)
(* Claims about atest.main.                                                *)
(***************************************************************************)
\* The step options of the command line select the build step: -b is
\* given, or no step option is.
BuildSelected == args.steps = <<>> \/ "build" \in Range(args.steps)

\* The test step is in effect: -t is given, or no step option is, or -i
\* is, which brings the test step with it.
TestInEffect ==
    \/ args.steps = <<>>
    \/ "test" \in Range(args.steps)
    \/ "install" \in Range(args.steps)

\* C15: for every combination of -b/-i/-t, once a selected build has
\* failed main has returned EXIT_CODE_BUILD_FAILURE and no run command has
\* been or will be executed; a run command is executed only with the test
\* step in effect and, when the build step is selected, after the build
\* succeeded.
C15_BuildFailureStopsTests ==
    /\ success = "False" =>
         /\ BuildSelected
         /\ apc = "returned"
         /\ exit_code = 2
         /\ executed = <<>>
    /\ executed # <<>> =>
         /\ TestInEffect
         /\ IF BuildSelected THEN success = "True" ELSE success = "unset"
    /\ BuildSelected /\ apc \in {"install", "test", "CalledProcessError"} =>
         success = "True"

\* C15's case: build and test steps selected, run commands at hand, the
\* build failed and main returned.
C15_Witness ==
    /\ "build" \in Range(args.steps)
    /\ "test" \in Range(args.steps)
    /\ run_commands # <<>>
    /\ success = "False"
    /\ apc = "returned"

(***************************************************************************)
(* Specifications: one per function, the others idle.                      *)
(***************************************************************************)
NoModuleInfo == module_info = {}

InitModuleDir == ModInit /\ ExtIdle /\ PushIdle /\ NoModuleInfo /\ XmlIdle /\ VtsIdle /\ FqcnIdle /\ SplitIdle /\ MainIdle
SpecModuleDir == InitModuleDir /\ [][ModNext]_vars

InitExtract == ExtInit /\ ModIdle /\ PushIdle /\ NoModuleInfo /\ XmlIdle /\ VtsIdle /\ FqcnIdle /\ SplitIdle /\ MainIdle
SpecExtract == InitExtract /\ [][ExtNext]_vars

InitPush == PushInit /\ ModIdle /\ ExtIdle /\ NoModuleInfo /\ XmlIdle /\ VtsIdle /\ FqcnIdle /\ SplitIdle /\ MainIdle
SpecPush == InitPush /\ [][PushNext]_vars

InitXml == XmlInit /\ ModIdle /\ ExtIdle /\ PushIdle /\ VtsIdle /\ FqcnIdle /\ SplitIdle /\ MainIdle
SpecXml == InitXml /\ [][XmlNext]_vars

InitVts == VtsInit /\ ModIdle /\ ExtIdle /\ XmlIdle /\ FqcnIdle /\ SplitIdle /\ MainIdle
SpecVts == InitVts /\ [][VtsNext]_vars

InitBinSrc == BinSrcInit /\ ModIdle /\ ExtIdle /\ PushIdle /\ NoModuleInfo /\ XmlIdle /\ FqcnIdle /\ SplitIdle /\ MainIdle
SpecBinSrc == InitBinSrc /\ [][BinSrcNext]_vars

InitFqcn == FqcnInit /\ ModIdle /\ ExtIdle /\ PushIdle /\ NoModuleInfo /\ XmlIdle /\ VtsIdle /\ SplitIdle /\ MainIdle
SpecFqcn == InitFqcn /\ [][FqcnNext]_vars

InitSplit == SplitInit /\ ModIdle /\ ExtIdle /\ PushIdle /\ NoModuleInfo /\ XmlIdle /\ VtsIdle /\ FqcnIdle /\ MainIdle
SpecSplit == InitSplit /\ [][SplitNext]_vars

InitMain == MainInit /\ ModIdle /\ ExtIdle /\ PushIdle /\ NoModuleInfo /\ XmlIdle /\ VtsIdle /\ FqcnIdle /\ SplitIdle
SpecMain == InitMain /\ [][MainNext]_vars

====
